---- MODULE Spec2Model ----
(***************************************************************************)
(* A model of hyperparameter_hunter/environment.py: the construction of an *)
(* Environment and its workflow                                            *)
(*   update_custom_environment_params -> validate_parameters ->            *)
(*   define_holdout_set -> format_result_paths ->                          *)
(*   generate_cross_experiment_key.                                        *)
(* Python values are tagged records, so that None, False, 0, [] and {} are *)
(* five different values, as they are for `is None` and for `or`.          *)
(***************************************************************************)
EXTENDS Integers, Sequences, FiniteSets, TLC

VARIABLES
    self,     \* the attributes of the Environment being (or last) constructed
    args,     \* the arguments of the current call of Environment.__init__
    files,    \* what the file system holds for this call: the .json defaults file
    dirs,     \* the directories os.makedirs has created so far
    pc,       \* the stage of the workflow that is due, or that raised; "done" at the end
    error,    \* the exception that ended the current construction, or "none"
    GEnv,     \* G.Env: the number of the instance registered as active, 0 if unset
    outcome,  \* outcome[i]: how construction i ended ("done" or "failed")
    twin,     \* when the current call was made with the argument objects of the call
              \* before it: the attributes of the instance of that call, as they are
              \* now; NoSelf otherwise
    yielded,  \* the attributes of that instance as they were when its construction
              \* ended; NoSelf when twin is
    ended,    \* the attributes of self as they were when its construction ended;
              \* NoSelf while the workflow runs
    GLog,     \* G.log, G.debug, G.warn: the number of the instance whose
              \* ReportingHandler they are bound to, 0 before any is
    earlier,  \* earlier[n]: what a method of the earlier instance n reads and
              \* writes, root_results_path and reporting_handler_params, as they
              \* are now
    paramsObject  \* paramsObject[n]: the object that is reporting_handler_params of
              \* instance n, named by the number of the first instance that held it

vars == <<self, args, files, dirs, pc, error, GEnv, outcome, twin, yielded, ended, GLog,
          earlier, paramsObject>>

(***************************************************************************)
(* Bounds of the model.                                                    *)
(***************************************************************************)
MaxConstructions == 2
MaxBlacklistLen == 2

(***************************************************************************)
(* Python values.                                                          *)
(***************************************************************************)
None == [t |-> "none"]
PyBool(b) == [t |-> "bool", b |-> b]
PyInt(i) == [t |-> "int", i |-> i]
PyStr(s) == [t |-> "str", s |-> s]
PyList(l) == [t |-> "list", l |-> l]
PyTuple(l) == [t |-> "tuple", l |-> l]
PyDict(d) == [t |-> "dict", d |-> d]
DataFrame(cols) == [t |-> "DataFrame", columns |-> cols]
Function(name) == [t |-> "function", name |-> name]
Class(name) == [t |-> "class", name |-> name]

EmptyDict == PyDict(<<>>)
EmptyList == PyList(<<>>)

\* bool(v): the truth value Python's `or` tests
Truthy(v) ==
    CASE v.t = "none" -> FALSE
      [] v.t = "bool" -> v.b
      [] v.t = "int" -> v.i # 0
      [] v.t = "str" -> v.s # ""
      [] v.t = "list" -> Len(v.l) > 0
      [] v.t = "tuple" -> Len(v.l) > 0
      [] v.t = "dict" -> DOMAIN v.d # {}
      [] OTHER -> TRUE

\* a or b
PyOr(a, b) == IF Truthy(a) THEN a ELSE b

IsCallable(v) == v.t \in {"function", "class"}

RECURSIVE Decimal(_)
\* str(n) of an int n
Decimal(n) ==
    IF n < 0 THEN "-" \o Decimal(0 - n)
    ELSE IF n < 10 THEN SubSeq("0123456789", n + 1, n + 1)
    ELSE Decimal(n \div 10) \o Decimal(n % 10)

\* c in s, for a character c
Contains(s, c) == \E i \in 1..Len(s) : SubSeq(s, i, i) = c

\* one character of a str as repr writes it between the quotes q
EscapeChar(c, q) ==
    CASE c = "\\" -> "\\\\"
      [] c = "\n" -> "\\n"
      [] c = "\r" -> "\\r"
      [] c = "\t" -> "\\t"
      [] c = q -> "\\" \o q
      [] OTHER -> c

RECURSIVE Escaped(_, _)
Escaped(s, q) ==
    IF Len(s) = 0 THEN ""
    ELSE EscapeChar(SubSeq(s, 1, 1), q) \o Escaped(SubSeq(s, 2, Len(s)), q)

\* repr(s) of a str of printable ASCII characters, newlines, returns and tabs:
\* between double quotes if s holds a single quote and no double quote, between
\* single quotes otherwise
ReprStr(s) ==
    LET q == IF Contains(s, "'") /\ ~Contains(s, "\"") THEN "\"" ELSE "'"
    IN  q \o Escaped(s, q) \o q

\* the orders in which the keys of a dict can have been inserted; a PyDict does
\* not tell which it was
Orders(S) ==
    {q \in [1..Cardinality(S) -> S] : \A i, j \in 1..Cardinality(S) : i # j => q[i] # q[j]}

RECURSIVE Reprs(_)
RECURSIVE ReprsItems(_)
RECURSIVE ReprsEntries(_, _)
\* what repr(v) can be for None, a bool, an int, a str, and a list, a tuple or a
\* dict of these: one string, or for a dict of several keys one string for each
\* order of insertion
Reprs(v) ==
    CASE v.t = "none" -> {"None"}
      [] v.t = "bool" -> {IF v.b THEN "True" ELSE "False"}
      [] v.t = "int" -> {Decimal(v.i)}
      [] v.t = "str" -> {ReprStr(v.s)}
      [] v.t = "list" -> {"[" \o x \o "]" : x \in ReprsItems(v.l)}
      [] v.t = "tuple" -> IF Len(v.l) = 1 THEN {"(" \o x \o ",)" : x \in Reprs(v.l[1])}
                          ELSE {"(" \o x \o ")" : x \in ReprsItems(v.l)}
      [] v.t = "dict" ->
            {"{" \o x \o "}" : x \in UNION {ReprsEntries(v.d, q) : q \in Orders(DOMAIN v.d)}}

\* ', '.join(repr(x) for x in items)
ReprsItems(items) ==
    IF Len(items) = 0 THEN {""}
    ELSE IF Len(items) = 1 THEN Reprs(items[1])
    ELSE {a \o ", " \o b : a \in Reprs(items[1]), b \in ReprsItems(Tail(items))}

\* ', '.join(repr(k) + ': ' + repr(d[k]) for k in keys)
ReprsEntries(d, keys) ==
    IF Len(keys) = 0 THEN {""}
    ELSE LET entries == {ReprStr(keys[1]) \o ": " \o a : a \in Reprs(d[keys[1]])} IN
         IF Len(keys) = 1 THEN entries
         ELSE {e \o ", " \o b : e \in entries, b \in ReprsEntries(d, Tail(keys))}

\* what '{}'.format(v) can be: str(v), which is v itself for a str and repr(v)
\* for the other values
Formats(v) == IF v.t = "str" THEN {v.s} ELSE Reprs(v)

(***************************************************************************)
(* Strings as paths.                                                       *)
(***************************************************************************)
EndsWith(s, suffix) ==
    /\ Len(s) >= Len(suffix)
    /\ SubSeq(s, Len(s) - Len(suffix) + 1, Len(s)) = suffix

\* os.path.join(a, b) on a POSIX system, for a relative or absolute b
os_path_join(a, b) ==
    IF Len(b) > 0 /\ SubSeq(b, 1, 1) = "/" THEN b
    ELSE IF a = "" \/ EndsWith(a, "/") THEN a \o b
    ELSE a \o "/" \o b

(***************************************************************************)
(* hyperparameter_hunter.settings: the assets directory name and the       *)
(* sub-path of every result file below the root.                           *)
(***************************************************************************)
ASSETS_DIRNAME == "HyperparameterHunterAssets"

RESULT_FILE_SUB_DIR_PATHS ==
    [checkpoint |-> "Experiments/Checkpoints",
     description |-> "Experiments/Descriptions",
     heartbeat |-> "Experiments/Heartbeats",
     predictions_holdout |-> "Experiments/PredictionsHoldout",
     predictions_in_fold |-> "Experiments/PredictionsInFold",
     predictions_oof |-> "Experiments/PredictionsOOF",
     predictions_test |-> "Experiments/PredictionsTest",
     script_backup |-> "Experiments/ScriptBackups",
     tested_keys |-> "KeyAttributeLookup",
     key_attribute_lookup |-> "KeyAttributeLookup",
     leaderboards |-> "Leaderboards",
     global_leaderboard |-> "Leaderboards/GlobalLeaderboard.csv"]

(***************************************************************************)
(* The signature of Environment.__init__ and the class attribute           *)
(* DEFAULT_PARAMS.                                                         *)
(***************************************************************************)
\* the keyword-only parameters: signature(Environment).parameters of kind KEYWORD_ONLY
allowed_parameter_keys ==
    {"root_results_path", "holdout_dataset", "test_dataset",
     "target_column", "id_column", "do_predict_proba", "prediction_formatter",
     "metrics_map", "metrics_params",
     "cross_validation_type", "runs", "global_random_seed", "random_seeds",
     "random_seed_bounds", "cross_validation_params",
     "verbose", "file_blacklist", "reporting_handler_params", "to_csv_params",
     "do_full_save", "experiment_callbacks"}

PositionalKeys == {"train_dataset", "environment_params_path"}

ArgKeys == PositionalKeys \cup allowed_parameter_keys

DEFAULT_PARAMS ==
    [environment_params_path |-> None,
     root_results_path |-> None,
     target_column |-> PyStr("target"),
     id_column |-> None,
     do_predict_proba |-> PyBool(FALSE),
     prediction_formatter |-> Function("format_predictions"),
     metrics_map |-> None,
     metrics_params |-> EmptyDict,
     cross_validation_type |-> Class("KFold"),
     runs |-> PyInt(1),
     global_random_seed |-> PyInt(32),
     random_seeds |-> None,
     random_seed_bounds |-> PyList(<<PyInt(0), PyInt(100000)>>),
     cross_validation_params |-> EmptyDict,
     verbose |-> PyBool(TRUE),
     file_blacklist |-> None,
     reporting_handler_params |->
         PyDict([heartbeat_path |-> None, float_format |-> PyStr("{:.5f}"),
               console_params |-> None, heartbeat_params |-> None]),
     to_csv_params |-> EmptyDict,
     do_full_save |-> Function("default_do_full_save")]

\* DEFAULT_PARAMS.get(k, None)
DefaultGet(k) == IF k \in DOMAIN DEFAULT_PARAMS THEN DEFAULT_PARAMS[k] ELSE None

(***************************************************************************)
(* The catalogue of result paths, as __init__ creates it.                  *)
(***************************************************************************)
ResultKeys ==
    {"root", "checkpoint", "description", "heartbeat", "predictions_holdout",
     "predictions_in_fold", "predictions_oof", "predictions_test", "script_backup",
     "tested_keys", "key_attribute_lookup", "leaderboards", "global_leaderboard"}

InitialResultPaths(root) == [k \in ResultKeys |-> IF k = "root" THEN root ELSE None]

(***************************************************************************)
(* The attributes of an Environment.                                       *)
(***************************************************************************)
OtherAttributes == {"cross_experiment_params", "result_paths", "current_task",
                    "cross_experiment_key"}

Attributes == ArgKeys \cup OtherAttributes

\* the attributes before any __init__ has run
NoSelf == [k \in Attributes |-> None]

\* self.<k> as __init__ assigns it from the arguments a; three of the ancillary
\* settings are stored through `or`
InitAttribute(a, k) ==
    CASE k = "reporting_handler_params" -> PyOr(a[k], EmptyDict)
      [] k = "to_csv_params" -> PyOr(a[k], EmptyDict)
      [] k = "experiment_callbacks" -> PyOr(a[k], EmptyList)
      [] k = "cross_experiment_params" -> EmptyDict
      [] k = "result_paths" -> PyDict(InitialResultPaths(a["root_results_path"]))
      [] k = "current_task" -> None
      [] k = "cross_experiment_key" -> None
      [] OTHER -> a[k]


(***************************************************************************)
(* The file system: the .json file at environment_params_path, and the     *)
(* .csv files that pandas.read_csv can find.                                *)
(***************************************************************************)
Missing == [t |-> "missing"]

TrainColumns == <<"a", "b", "target">>

CsvFiles ==
    ("train.csv" :> DataFrame(TrainColumns))
    @@ ("holdout.csv" :> DataFrame(TrainColumns))
    @@ ("holdout_short.csv" :> DataFrame(<<"a", "b">>))
    @@ ("test.csv" :> DataFrame(<<"a", "b">>))

CsvExists(path) == path.s \in DOMAIN CsvFiles

\* pd.read_csv(path), for a path that exists
read_csv(path) == CsvFiles[path.s]

(***************************************************************************)
(* The result of a stage: the attributes it leaves and the exception it    *)
(* raised ("none" when it returned).                                       *)
(***************************************************************************)
Ok(s) == [self |-> s, error |-> "none"]
Raise(s, e) == [self |-> s, error |-> e]

(***************************************************************************)
(* update_custom_environment_params                                        *)
(***************************************************************************)
\* The first loop, for one key: a key of the file that is a keyword-only
\* parameter replaces an attribute that is None
UserDefaultFor(cur, k, user_defaults) ==
    IF k \in DOMAIN user_defaults /\ k \in allowed_parameter_keys /\ cur = None
    THEN user_defaults[k]
    ELSE cur

\* The second loop, for one key: DEFAULT_PARAMS replaces an attribute that is
\* still None
ModuleDefaultFor(cur, k) ==
    IF k \in allowed_parameter_keys /\ cur = None THEN DefaultGet(k) ELSE cur

\* Both loops: the attributes after the cascade
ResolvedAttributes(s, user_defaults) ==
    [k \in DOMAIN s |-> ModuleDefaultFor(UserDefaultFor(s[k], k, user_defaults), k)]

update_custom_environment_params_of(s, f) ==
    LET path == s.environment_params_path IN
    IF path.t \notin {"str", "none"} THEN Raise(s, "TypeError")
    ELSE IF path.t = "str" /\ f.json = Missing THEN Raise(s, "FileNotFoundError")
    ELSE LET user_defaults == IF path.t = "none" THEN EmptyDict ELSE f.json IN
         IF user_defaults.t # "dict" THEN Raise(s, "TypeError")
         ELSE Ok(ResolvedAttributes(s, user_defaults.d))


(***************************************************************************)
(* validate_file_blacklist                                                 *)
(***************************************************************************)
valid_values ==
    {"description", "heartbeat", "predictions_holdout", "predictions_in_fold",
     "predictions_oof", "predictions_test", "script_backup", "tested_keys"}

ALL == PyStr("ALL")

Returned(v) == [value |-> v, error |-> "none"]
Raised(e) == [value |-> None, error |-> e]

\* A validator that also rejects a list in which an entry is repeated
validate_file_blacklist_no_repeats(blacklist) ==
    IF blacklist = ALL THEN Returned(blacklist)
    ELSE IF ~Truthy(blacklist) THEN Returned(EmptyList)
    ELSE IF blacklist.t # "list" THEN Raised("TypeError")
    ELSE IF \E i \in 1..Len(blacklist.l) : blacklist.l[i].t # "str" THEN Raised("TypeError")
    ELSE IF \E i \in 1..Len(blacklist.l) : blacklist.l[i].s \notin valid_values
         THEN Raised("ValueError")
    ELSE IF \E i, j \in 1..Len(blacklist.l) : i # j /\ blacklist.l[i] = blacklist.l[j]
         THEN Raised("ValueError")
    ELSE Returned(blacklist)

validate_file_blacklist(blacklist) ==
    IF blacklist = ALL THEN Returned(blacklist)
    ELSE IF ~Truthy(blacklist) THEN Returned(EmptyList)
    ELSE IF blacklist.t # "list" THEN Raised("TypeError")
    ELSE IF \E i \in 1..Len(blacklist.l) : blacklist.l[i].t # "str" THEN Raised("TypeError")
    ELSE IF \E i \in 1..Len(blacklist.l) : blacklist.l[i].s \notin valid_values
         THEN Raised("ValueError")
    ELSE Returned(blacklist)

(***************************************************************************)
(* validate_parameters, section by section. Each section takes the         *)
(* attributes the previous one left; a section that raises leaves the      *)
(* attributes as they were at the raise.                                   *)
(***************************************************************************)
\* whether the root_results_path section appends ASSETS_DIRNAME
NeedsAssetsDir(root) == root.t = "str" /\ ~EndsWith(root.s, ASSETS_DIRNAME)

ValidateRoot(s) ==
    LET root == s.root_results_path IN
    IF root.t = "none" THEN Ok(s)
    ELSE IF root.t = "str" THEN
        IF NeedsAssetsDir(root)
        THEN LET joined == PyStr(os_path_join(root.s, ASSETS_DIRNAME)) IN
             Ok([s EXCEPT !.root_results_path = joined,
                          !.result_paths = PyDict([@.d EXCEPT !.root = joined])])
        ELSE Ok(s)
    ELSE Raise(s, "TypeError")

\* os.makedirs(self.root_results_path, exist_ok=True) of the same section
MadeDirs(s, d) ==
    LET r == ValidateRoot(s) IN
    IF r.error = "none" /\ r.self.root_results_path.t = "str"
    THEN d \cup {r.self.root_results_path.s}
    ELSE d

ValidateVerbose(s) ==
    IF s.verbose.t # "bool" THEN Raise(s, "TypeError") ELSE Ok(s)

ValidateBlacklist(s) ==
    LET r == validate_file_blacklist(s.file_blacklist) IN
    IF r.error # "none" THEN Raise(s, r.error)
    ELSE Ok([s EXCEPT !.file_blacklist = r.value])

\* pd.read_csv of a str train_dataset, then of a str test_dataset
ValidateDatasets(s) ==
    IF s.train_dataset.t = "str" /\ ~CsvExists(s.train_dataset)
    THEN Raise(s, "FileNotFoundError")
    ELSE LET s1 == IF s.train_dataset.t = "str"
                   THEN [s EXCEPT !.train_dataset = read_csv(@)] ELSE s IN
         IF s1.test_dataset.t = "str" /\ ~CsvExists(s1.test_dataset)
         THEN Raise(s1, "FileNotFoundError")
         ELSE IF s1.test_dataset.t = "str"
              THEN Ok([s1 EXCEPT !.test_dataset = read_csv(@)])
              ELSE Ok(s1)

\* A merge that keeps the registry alone and drops the other parameters
MergeMetricsAlone(metrics_map, metrics_params) ==
    PyDict([k \in {"metrics_map"} |-> metrics_map])

\* {**dict(metrics_map=metrics_map), **metrics_params}
MergeMetrics(metrics_map, metrics_params) ==
    PyDict([k \in {"metrics_map"} \cup DOMAIN metrics_params.d |->
               IF k \in DOMAIN metrics_params.d THEN metrics_params.d[k]
               ELSE metrics_map])

\* A section without the exclusivity check: the registry of metrics_params wins
\* when both are given, and a missing registry is stored as None
ValidateMetricsUnchecked(s) ==
    LET mm == s.metrics_map
        mp == s.metrics_params IN
    IF mp.t # "dict" THEN Raise(s, "AttributeError")
    ELSE LET map == IF "metrics_map" \in DOMAIN mp.d THEN mp.d["metrics_map"] ELSE mm IN
         Ok([s EXCEPT !.metrics_map = map, !.metrics_params = MergeMetrics(map, mp)])

ValidateMetrics(s) ==
    LET mm == s.metrics_map
        mp == s.metrics_params IN
    IF mm # None /\ mp.t # "dict" THEN Raise(s, "AttributeError")
    ELSE IF mm # None /\ "metrics_map" \in DOMAIN mp.d THEN Raise(s, "ValueError")
    ELSE IF mm = None /\ mp.t # "dict" THEN Raise(s, "TypeError")
    ELSE IF mm = None /\ "metrics_map" \notin DOMAIN mp.d THEN Raise(s, "KeyError")
    ELSE LET map == IF mm = None THEN mp.d["metrics_map"] ELSE mm IN
         Ok([s EXCEPT !.metrics_map = map, !.metrics_params = MergeMetrics(map, mp)])

ValidateToCsv(s) ==
    IF s.to_csv_params.t # "dict" THEN Raise(s, "AttributeError")
    ELSE Ok([s EXCEPT !.to_csv_params =
                PyDict([k \in DOMAIN @.d \ {"path_or_buf"} |-> @.d[k]])])

SnapshotCrossExperimentParams(s) ==
    Ok([s EXCEPT !.cross_experiment_params =
           PyDict([cross_validation_type |-> s.cross_validation_type,
                   runs |-> s.runs,
                   global_random_seed |-> s.global_random_seed,
                   random_seeds |-> s.random_seeds,
                   random_seed_bounds |-> s.random_seed_bounds])])

ValidateCallbacks(s) ==
    LET s1 == IF s.experiment_callbacks.t # "list"
              THEN [s EXCEPT !.experiment_callbacks = PyList(<<@>>)] ELSE s
        cbs == s1.experiment_callbacks.l
        Bad(i) == cbs[i].t # "class" \/ cbs[i].name # "LambdaCallback"
    IN  IF \E i \in 1..Len(cbs) : Bad(i)
        THEN LET first == CHOOSE i \in 1..Len(cbs) :
                              Bad(i) /\ \A j \in 1..(i - 1) : ~Bad(j) IN
             Raise(s1, IF cbs[first].t # "class" THEN "TypeError" ELSE "ValueError")
        ELSE Ok(s1)

\* the sections before the one on metrics_params/metrics_map
SectionsBeforeMetrics(s) ==
    LET r1 == ValidateRoot(s)
        r2 == IF r1.error # "none" THEN r1 ELSE ValidateVerbose(r1.self)
        r3 == IF r2.error # "none" THEN r2 ELSE ValidateBlacklist(r2.self)
    IN  IF r3.error # "none" THEN r3 ELSE ValidateDatasets(r3.self)

\* the sections after it
SectionsAfterMetrics(s) ==
    LET r1 == ValidateToCsv(s)
        r2 == IF r1.error # "none" THEN r1 ELSE SnapshotCrossExperimentParams(r1.self)
    IN  IF r2.error # "none" THEN r2 ELSE ValidateCallbacks(r2.self)

validate_parameters_of(s) ==
    LET r1 == SectionsBeforeMetrics(s)
        r2 == IF r1.error # "none" THEN r1 ELSE ValidateMetrics(r1.self)
    IN  IF r2.error # "none" THEN r2 ELSE SectionsAfterMetrics(r2.self)

(***************************************************************************)
(* define_holdout_set                                                      *)
(***************************************************************************)
Reversed(seq) == [i \in 1..Len(seq) |-> seq[Len(seq) + 1 - i]]

\* holdout_dataset(train_dataset, target_column) for the splitting functions
\* a caller may pass: the pair (train_dataset, holdout_dataset) it returns
Call(f, train, target) ==
    CASE f.name = "split_same" ->
            <<train, DataFrame(train.columns)>>
      [] f.name = "split_reordered" ->
            <<train, DataFrame(Reversed(train.columns))>>
      [] f.name = "split_without_target" ->
            <<train, DataFrame(SelectSeq(train.columns, LAMBDA c : PyStr(c) # target))>>
      [] OTHER ->
            <<DataFrame(<<"a", "target">>), DataFrame(<<"a", "target">>)>>

\* A comparison of the names alone: as many columns, and the same set of names
SameNamesAnyOrder(a, b) ==
    /\ Len(a) = Len(b)
    /\ {a[i] : i \in 1..Len(a)} = {b[i] : i \in 1..Len(b)}

\* np.array_equal(a, b): same shape and equal element by element
np_array_equal(a, b) == Len(a) = Len(b) /\ \A i \in 1..Len(a) : a[i] = b[i]

\* the first statement: holdout_dataset by its type
MaterializeHoldout(s) ==
    LET h == s.holdout_dataset IN
    IF IsCallable(h)
    THEN LET pair == Call(h, s.train_dataset, s.target_column) IN
         Ok([s EXCEPT !.train_dataset = pair[1], !.holdout_dataset = pair[2]])
    ELSE IF h.t = "str"
    THEN IF CsvExists(h) THEN Ok([s EXCEPT !.holdout_dataset = read_csv(h)])
         ELSE Raise(s, "FileNotFoundError")
    ELSE IF h # None /\ h.t # "DataFrame" THEN Raise(s, "TypeError")
    ELSE Ok(s)

\* the second statement: the columns of the two tables
CheckHoldoutColumns(s) ==
    IF s.holdout_dataset # None
       /\ ~np_array_equal(s.train_dataset.columns, s.holdout_dataset.columns)
    THEN Raise(s, "ValueError")
    ELSE Ok(s)

define_holdout_set_of(s) ==
    LET r == MaterializeHoldout(s) IN
    IF r.error # "none" THEN r ELSE CheckHoldoutColumns(r.self)

(***************************************************************************)
(* format_result_paths                                                     *)
(***************************************************************************)
\* k in blacklist, for a list
InList(k, blacklist) == \E i \in 1..Len(blacklist.l) : blacklist.l[i] = PyStr(k)

\* list.append
ListAppend(list, v) == PyList(Append(list.l, v))

\* The appends with the one for the test set forgotten
ImplicitBlacklistHoldoutOnly(blacklist, holdout_dataset, test_dataset) ==
    IF holdout_dataset = None
    THEN PyList(Append(blacklist.l, PyStr("predictions_holdout"))) ELSE blacklist

\* the two appends for the datasets not given
ImplicitBlacklist(blacklist, holdout_dataset, test_dataset) ==
    LET b1 == IF holdout_dataset = None
              THEN ListAppend(blacklist, PyStr("predictions_holdout")) ELSE blacklist
    IN  IF test_dataset = None THEN ListAppend(b1, PyStr("predictions_test")) ELSE b1

\* the body of the loop over result_paths, for one key
PlannedPath(k, current, blacklist, root) ==
    IF k = "root" THEN current
    ELSE IF ~InList(k, blacklist)
    THEN PyStr(os_path_join(root.s, RESULT_FILE_SUB_DIR_PATHS[k]))
    ELSE None

\* A planner whose appends are not under the test of root_results_path
format_result_paths_appending(s) ==
    IF s.file_blacklist = ALL THEN Ok(s)
    ELSE LET blacklist == ImplicitBlacklist(s.file_blacklist, s.holdout_dataset,
                                            s.test_dataset) IN
         IF s.root_results_path # None
         THEN Ok([s EXCEPT !.file_blacklist = blacklist,
                           !.result_paths = PyDict([k \in DOMAIN @.d |->
                               PlannedPath(k, @.d[k], blacklist, s.root_results_path)])])
         ELSE Ok([s EXCEPT !.file_blacklist = blacklist])

format_result_paths_of(s) ==
    IF s.file_blacklist = ALL THEN Ok(s)
    ELSE IF s.root_results_path # None
    THEN LET blacklist == ImplicitBlacklist(s.file_blacklist, s.holdout_dataset,
                                            s.test_dataset) IN
         Ok([s EXCEPT !.file_blacklist = blacklist,
                      !.result_paths = PyDict([k \in DOMAIN @.d |->
                          PlannedPath(k, @.d[k], blacklist, s.root_results_path)])])
    ELSE Ok(s)

(***************************************************************************)
(* generate_cross_experiment_key                                           *)
(***************************************************************************)
\* the parameters handed to the key maker
KeyParameters(s) ==
    [metrics_params |-> s.metrics_params,
     cross_validation_params |-> s.cross_validation_params,
     target_column |-> s.target_column,
     id_column |-> s.id_column,
     do_predict_proba |-> s.do_predict_proba,
     prediction_formatter |-> s.prediction_formatter,
     train_dataset |-> s.train_dataset,
     test_dataset |-> s.test_dataset,
     holdout_dataset |-> s.holdout_dataset,
     cross_experiment_params |-> s.cross_experiment_params,
     to_csv_params |-> s.to_csv_params]

\* the key maker: a token that is a function of the parameters' values
CrossExperimentKeyMaker(parameters) == [t |-> "key", parameters |-> parameters]

generate_cross_experiment_key_of(s) ==
    Ok([s EXCEPT !.cross_experiment_key = CrossExperimentKeyMaker(KeyParameters(s))])


(***************************************************************************)
(* The calls of Environment(...) the model makes: the arguments and the    *)
(* content of the defaults file. Each family varies the arguments of one   *)
(* part of the workflow and leaves the others at the signature's defaults. *)
(***************************************************************************)
With(a, k, v) == [a EXCEPT ![k] = v]

\* Environment(train_dataset=<DataFrame>): every other argument at its default
BaseArgs == [k \in ArgKeys |-> IF k = "train_dataset" THEN DataFrame(TrainColumns) ELSE None]

MetricsList == PyList(<<PyStr("roc_auc_score")>>)

\* the smallest call whose workflow succeeds
GoodArgs == With(BaseArgs, "metrics_map", MetricsList)

EnvPath == PyStr("env.json")

Input(a, json) == [args |-> a, files |-> [json |-> json]]

\* values a caller may pass for any keyword: None, the falsy values and a truthy one
CallerValues ==
    {None, PyBool(FALSE), PyInt(0), EmptyList, EmptyDict, PyStr("caller"), PyBool(TRUE)}

\* values the defaults file may hold under a key (None is JSON's null)
FileValues ==
    {None, PyBool(FALSE), PyStr("file"), PyDict([sep |-> PyStr(";")]),
     PyList(<<PyStr("description")>>)}

CascadeInputs ==
    {Input(With(With(GoodArgs, k, cv), "environment_params_path", EnvPath), json) :
        <<k, cv, json>> \in
            UNION {{<<k, cv, j>> : cv \in CallerValues,
                    j \in {PyDict(k :> fv) : fv \in FileValues}
                          \cup {EmptyDict,
                                PyDict((k :> PyStr("file")) @@ ("bogus" :> PyStr("file"))
                                       @@ ("train_dataset" :> PyStr("train.csv")))}} :
                   k \in allowed_parameter_keys}}

\* environment_params_path of a wrong type, a missing file, a file that holds no object
DefaultsFileInputs ==
    {Input(With(GoodArgs, "environment_params_path", path), json) :
        path \in {None, EnvPath, PyInt(7)},
        json \in {Missing, EmptyDict, PyList(<<PyStr("verbose")>>),
                  PyDict([verbose |-> PyBool(FALSE)])}}

MetricsParamsValues ==
    {None, EmptyDict,
     PyDict([metrics_map |-> PyList(<<PyStr("f1_score")>>)]),
     PyDict([metrics_map |-> PyList(<<PyStr("f1_score")>>), in_fold |-> PyStr("all")]),
     PyDict([in_fold |-> PyStr("all")])}

MetricsInputs ==
    {Input([BaseArgs EXCEPT !.metrics_map = mm, !.metrics_params = mp, !.verbose = v,
                            !.root_results_path = root, !.file_blacklist = bl], Missing) :
        mm \in {None, MetricsList}, mp \in MetricsParamsValues,
        v \in {None, PyBool(FALSE), PyInt(1)},
        root \in {None, PyStr("/tmp/proj")},
        bl \in {None, ALL, PyList(<<PyStr("bogus")>>)}}

\* what a list given as file_blacklist may contain
BlacklistEntries ==
    {PyStr("predictions_holdout"), PyStr("predictions_test"), PyStr("tested_keys"),
     PyStr("description"), PyStr("root"), PyInt(14)}

ListsUpTo(n, S) == UNION {[1..m -> S] : m \in 0..n}

Blacklists ==
    {None, ALL, PyStr("heartbeat"), PyStr(""), PyInt(0), PyInt(14), PyBool(FALSE),
     PyBool(TRUE), PyTuple(<<>>), PyTuple(<<PyStr("heartbeat")>>), EmptyDict}
    \cup {PyList(l) : l \in ListsUpTo(MaxBlacklistLen, BlacklistEntries)}

Roots ==
    {PyStr("/tmp/proj"), PyStr("/tmp/proj/"), PyStr("/tmp/proj/" \o ASSETS_DIRNAME)}

TestFrame == DataFrame(<<"a", "b">>)

\* the root given by the caller, given by the defaults file, or not given
PathInputs ==
    {Input([GoodArgs EXCEPT !.file_blacklist = bl, !.holdout_dataset = h,
                            !.test_dataset = test, !.root_results_path = root], Missing) :
        bl \in Blacklists, h \in {None, DataFrame(TrainColumns)},
        test \in {None, TestFrame}, root \in Roots \cup {None}}
    \cup
    {Input([GoodArgs EXCEPT !.file_blacklist = bl, !.holdout_dataset = h,
                            !.test_dataset = test, !.environment_params_path = EnvPath],
           PyDict([root_results_path |-> root])) :
        bl \in Blacklists, h \in {None, DataFrame(TrainColumns)},
        test \in {None, TestFrame}, root \in Roots}

\* reporting_handler_params not given or a dict, with and without a root
ReportingInputs ==
    {Input([GoodArgs EXCEPT !.reporting_handler_params = p, !.root_results_path = root],
           Missing) :
        p \in {None, PyDict([float_format |-> PyStr("{:.2f}")]),
                PyDict([heartbeat_path |-> PyStr("mine.log")])},
        root \in {None, PyStr("/tmp/proj")}}

HoldoutValues ==
    {None, DataFrame(TrainColumns), DataFrame(<<"b", "a", "target">>),
     DataFrame(<<"a", "b">>), DataFrame(<<"a", "c", "target">>),
     DataFrame(<<"a", "b", "target", "target">>),
     PyStr("holdout.csv"), PyStr("holdout_short.csv"), PyStr("nowhere.csv"),
     Function("split_same"), Function("split_reordered"),
     Function("split_without_target"), Function("split_resample"),
     PyInt(5), PyList(<<PyStr("a")>>)}

HoldoutInputs ==
    {Input([GoodArgs EXCEPT !.train_dataset = train, !.holdout_dataset = h,
                            !.test_dataset = test, !.root_results_path = root], Missing) :
        train \in {DataFrame(TrainColumns), PyStr("train.csv"), PyStr("nowhere.csv")},
        h \in HoldoutValues,
        test \in {None, PyStr("test.csv"), PyStr("nowhere.csv")},
        root \in {None, PyStr("/tmp/proj")}}

CallbackValues ==
    {None, Class("LambdaCallback"), PyList(<<Class("LambdaCallback")>>),
     PyList(<<Class("LambdaCallback"), Class("Other")>>),
     PyList(<<Function("on_run_end"), Class("Other")>>), Class("Other")}

CallbackInputs ==
    {Input([GoodArgs EXCEPT !.experiment_callbacks = cb, !.to_csv_params = csv], Missing) :
        cb \in CallbackValues,
        csv \in {None, PyDict([path_or_buf |-> PyStr("out.csv"), sep |-> PyStr(";")])}}

Inputs ==
    CascadeInputs \cup DefaultsFileInputs \cup MetricsInputs \cup PathInputs
    \cup HoldoutInputs \cup CallbackInputs \cup ReportingInputs

\* The calls a process makes after its first one: one for each stage the
\* workflow can end in
SessionInputs ==
    {Input(With(GoodArgs, "environment_params_path", PyInt(7)), Missing),
     Input(With(GoodArgs, "verbose", PyInt(1)), Missing),
     Input(BaseArgs, Missing),
     Input(With(GoodArgs, "holdout_dataset", DataFrame(<<"a", "b">>)), Missing),
     Input(GoodArgs, Missing),
     Input([GoodArgs EXCEPT !.root_results_path = PyStr("/tmp/proj"),
                            !.file_blacklist = PyList(<<PyStr("predictions_test")>>)],
           Missing),
     Input([GoodArgs EXCEPT !.root_results_path = PyStr("/tmp/other"),
                            !.file_blacklist = ALL], Missing),
     Input(With(GoodArgs, "environment_params_path", EnvPath),
           PyDict([root_results_path |-> PyStr("/tmp/proj/" \o ASSETS_DIRNAME),
                   verbose |-> PyBool(FALSE)]))}

(***************************************************************************)
(* The state machine.                                                      *)
(***************************************************************************)
Init ==
    /\ self = NoSelf
    /\ args = BaseArgs
    /\ files = [json |-> Missing]
    /\ dirs = {}
    /\ pc = "idle"
    /\ error = "none"
    /\ GEnv = 0
    /\ outcome = <<>>
    /\ twin = NoSelf
    /\ yielded = NoSelf
    /\ ended = NoSelf
    /\ GLog = 0
    /\ earlier = <<>>
    /\ paramsObject = <<>>

\* A workflow that plans the paths before it defines the holdout set
environment_workflow_paths_first ==
    <<"update_custom_environment_params", "validate_parameters", "format_result_paths",
      "define_holdout_set", "generate_cross_experiment_key">>

\* environment_workflow: the stages in the order of their calls
environment_workflow ==
    <<"update_custom_environment_params", "validate_parameters", "define_holdout_set",
      "format_result_paths", "generate_cross_experiment_key">>

\* the stage called after stage name, "done" after the last one
StageAfter(name) ==
    LET i == CHOOSE j \in 1..Len(environment_workflow) : environment_workflow[j] = name
    IN  IF i = Len(environment_workflow) THEN "done" ELSE environment_workflow[i + 1]

\* Environment.__init__ up to the call of environment_workflow
__init__(a, f) ==
    /\ GEnv' = Len(outcome) + 1
    /\ self' = [k \in Attributes |-> InitAttribute(a, k)]
    /\ args' = a
    /\ files' = f
    /\ pc' = environment_workflow[1]
    /\ error' = "none"
    /\ ended' = NoSelf
    /\ earlier' = IF GEnv = 0 THEN earlier
                  ELSE Append(earlier,
                              [root_results_path |-> self.root_results_path,
                               reporting_handler_params |-> self.reporting_handler_params])
    /\ UNCHANGED <<dirs, outcome, GLog>>

\* The first Environment(...) of the process
Construct ==
    /\ pc = "idle"
    /\ \E in \in Inputs : __init__(in.args, in.files)
    /\ twin' = NoSelf
    /\ yielded' = NoSelf
    /\ paramsObject' = Append(paramsObject, GEnv')

\* A later Environment(...), after the previous call has returned or raised
ConstructAgain ==
    /\ pc = "done" \/ error # "none"
    /\ Len(outcome) < MaxConstructions
    /\ \E in \in SessionInputs : __init__(in.args, in.files)
    /\ twin' = NoSelf
    /\ yielded' = NoSelf
    /\ paramsObject' = Append(paramsObject, GEnv')

\* self.file_blacklist is the list object the caller passed: __init__ stores the
\* argument, and validate_file_blacklist returns the list it is given unless the
\* list is empty
SameListObject == args["file_blacklist"].t = "list" /\ args["file_blacklist"].l # <<>>

\* what the object the caller passed as file_blacklist holds now
CallerBlacklist ==
    IF SameListObject THEN self.file_blacklist ELSE args["file_blacklist"]

\* self.reporting_handler_params is the dict object the caller passed: __init__
\* stores the argument unless it is falsy
SameDictObject ==
    /\ args["reporting_handler_params"].t = "dict"
    /\ Truthy(args["reporting_handler_params"])

\* what the object the caller passed as reporting_handler_params holds now
CallerReportingParams ==
    IF SameDictObject THEN self.reporting_handler_params
    ELSE args["reporting_handler_params"]

\* Environment(...) once more with the objects that were the arguments of the call
\* before, and with the same defaults file
ConstructSame ==
    /\ pc = "done" \/ error # "none"
    /\ Len(outcome) < MaxConstructions
    /\ __init__([args EXCEPT !["file_blacklist"] = CallerBlacklist,
                             !["reporting_handler_params"] = CallerReportingParams],
                files)
    /\ twin' = self
    /\ yielded' = ended
    /\ paramsObject' = Append(paramsObject,
                              IF SameDictObject THEN paramsObject[GEnv] ELSE GEnv')

\* One call of environment_workflow (twin and dirs are left to the stage's action):
\* the stage returns and the next one is due,
\* or it raises and the exception leaves __init__ (pc stays at the stage that raised)
Stage(name, r, next) ==
    /\ pc = name
    /\ error = "none"
    /\ self' = r.self
    /\ error' = r.error
    /\ pc' = IF r.error = "none" THEN next ELSE name
    /\ outcome' = IF r.error # "none" THEN Append(outcome, "failed")
                  ELSE IF next = "done" THEN Append(outcome, "done")
                  ELSE outcome
    /\ ended' = IF r.error # "none" \/ next = "done" THEN r.self ELSE ended
    /\ UNCHANGED <<args, files, GEnv, GLog, earlier, paramsObject>>

update_custom_environment_params ==
    /\ Stage("update_custom_environment_params",
             update_custom_environment_params_of(self, files),
             StageAfter("update_custom_environment_params"))
    /\ UNCHANGED dirs
    /\ UNCHANGED <<twin, yielded>>

validate_parameters ==
    /\ Stage("validate_parameters", validate_parameters_of(self),
             StageAfter("validate_parameters"))
    /\ dirs' = MadeDirs(self, dirs)
    /\ UNCHANGED <<twin, yielded>>

define_holdout_set ==
    /\ Stage("define_holdout_set", define_holdout_set_of(self),
             StageAfter("define_holdout_set"))
    /\ UNCHANGED dirs
    /\ UNCHANGED <<twin, yielded>>

format_result_paths ==
    /\ Stage("format_result_paths", format_result_paths_of(self),
             StageAfter("format_result_paths"))
    /\ UNCHANGED dirs
    /\ twin' = IF twin # NoSelf /\ SameListObject
               THEN [twin EXCEPT !.file_blacklist = self'.file_blacklist]
               ELSE twin
    /\ UNCHANGED yielded

generate_cross_experiment_key ==
    /\ Stage("generate_cross_experiment_key", generate_cross_experiment_key_of(self),
             StageAfter("generate_cross_experiment_key"))
    /\ UNCHANGED dirs
    /\ UNCHANGED <<twin, yielded>>

\* initialize_reporting up to the rebinding of G.log, G.debug and G.warn, on an
\* instance with the attributes s, where formatted is what
\* '{}'.format(self.root_results_path) gives: the key 'heartbeat_path' is set in the
\* object reporting_handler_params; a value that takes no item assignment raises
\* TypeError
initialize_reporting_of(s, formatted) ==
    IF s.reporting_handler_params.t # "dict" THEN Raise(s, "TypeError")
    ELSE Ok([s EXCEPT !.reporting_handler_params =
                PyDict(("heartbeat_path" :> PyStr(formatted \o "/Heartbeat.log")) @@ @.d)])

\* the instances a caller can hold when no construction runs: every instance made
\* so far, since each was G.Env from the start of its construction, whether that
\* returned or raised
Reachable == IF pc = "done" \/ error # "none" THEN 1..GEnv ELSE {}

\* <instance n>.initialize_reporting(); a call that raises changes nothing. The
\* item assignment shows in every instance that holds the same dict object.
initialize_reporting ==
    \E n \in Reachable :
        LET s == IF n = GEnv THEN self ELSE earlier[n] IN
        \E formatted \in Formats(s.root_results_path) :
            LET r == initialize_reporting_of(s, formatted)
                params == r.self.reporting_handler_params
                Holds(m) == paramsObject[m] = paramsObject[n]
            IN  /\ r.error = "none"
                /\ self' = IF Holds(GEnv)
                           THEN [self EXCEPT !.reporting_handler_params = params]
                           ELSE self
                /\ earlier' = [m \in DOMAIN earlier |->
                                  IF Holds(m)
                                  THEN [earlier[m] EXCEPT !.reporting_handler_params = params]
                                  ELSE earlier[m]]
                /\ twin' = IF twin # NoSelf /\ Holds(GEnv - 1)
                           THEN [twin EXCEPT !.reporting_handler_params = params]
                           ELSE twin
                /\ GLog' = n
                /\ UNCHANGED <<args, files, dirs, pc, error, GEnv, outcome, yielded, ended,
                               paramsObject>>

Next ==
    \/ Construct
    \/ ConstructAgain
    \/ ConstructSame
    \/ update_custom_environment_params
    \/ validate_parameters
    \/ define_holdout_set
    \/ format_result_paths
    \/ generate_cross_experiment_key
    \/ initialize_reporting

Spec == Init /\ [][Next]_vars


(***************************************************************************)
(* Properties of the defaults cascade.                                     *)
(***************************************************************************)
\* update_custom_environment_params has just returned
Resolved == pc = "validate_parameters" /\ error = "none"

\* the defaults file was read and holds a value that is not null under k
FileHolds(k) ==
    /\ args["environment_params_path"].t = "str"
    /\ files.json.t = "dict"
    /\ k \in DOMAIN files.json.d
    /\ files.json.d[k] # None

\* the keyword-only parameters that __init__ stores through `or`
OrKeys == {"reporting_handler_params", "to_csv_params", "experiment_callbacks"}

\* C1: for every keyword-only option the caller passes a non-null value for, the
\* value after update_custom_environment_params is the caller's value, falsy
\* values (False, 0, [], {}) included.
C1_PrecedenceLaw ==
    Resolved => \A k \in allowed_parameter_keys : args[k] # None => self[k] = args[k]

\* The law as the code keeps it: for the options stored as passed, and for a
\* truthy value of the three stored through `or`.
C1_LawOutsideOr ==
    Resolved => \A k \in allowed_parameter_keys :
        (args[k] # None /\ (k \notin OrKeys \/ Truthy(args[k]))) => self[k] = args[k]

\* C2: for every keyword-only option the caller leaves null and the defaults file
\* holds a non-null value for, the value after update_custom_environment_params
\* is the file's value.
C2_FileTier ==
    Resolved => \A k \in allowed_parameter_keys :
        (args[k] = None /\ FileHolds(k)) => self[k] = files.json.d[k]

\* The second tier as the code keeps it: for the options stored as passed.
C2_FileTierOutsideOr ==
    Resolved => \A k \in allowed_parameter_keys \ OrKeys :
        (args[k] = None /\ FileHolds(k)) => self[k] = files.json.d[k]

\* C3: for every keyword-only option the caller leaves null and the defaults file
\* holds no non-null value for, the value after update_custom_environment_params
\* is the entry of DEFAULT_PARAMS, or None when DEFAULT_PARAMS has no entry.
C3_ModuleTier ==
    Resolved => \A k \in allowed_parameter_keys :
        (args[k] = None /\ ~FileHolds(k)) => self[k] = DefaultGet(k)

\* The third tier as the code keeps it: for the options stored as passed.
C3_ModuleTierOutsideOr ==
    Resolved => \A k \in allowed_parameter_keys \ OrKeys :
        (args[k] = None /\ ~FileHolds(k)) => self[k] = DefaultGet(k)


(***************************************************************************)
(* Properties of the metrics_params/metrics_map section.                   *)
(***************************************************************************)
HasRegistryKey(s) == s.metrics_params.t = "dict" /\ "metrics_map" \in DOMAIN s.metrics_params.d

\* the registry is given as metrics_map and as a key of metrics_params
BothRegistries(s) == s.metrics_map # None /\ HasRegistryKey(s)

\* the registry is given in neither place
NoRegistry(s) ==
    s.metrics_map = None /\ s.metrics_params.t = "dict" /\ ~HasRegistryKey(s)

\* the registry is given in exactly one place
OneRegistry(s) ==
    s.metrics_params.t = "dict" /\ ((s.metrics_map # None) # HasRegistryKey(s))

\* the registry that was given
SuppliedRegistry(s) ==
    IF s.metrics_map # None THEN s.metrics_map ELSE s.metrics_params.d["metrics_map"]

\* the sections of validate_parameters before the one on metrics pass
MetricsSectionReached(s) == SectionsBeforeMetrics(s).error = "none"

\* every section of validate_parameters but the one on metrics passes
OtherSectionsPass(s) ==
    /\ MetricsSectionReached(s)
    /\ SectionsAfterMetrics(SectionsBeforeMetrics(s).self).error = "none"

\* C4: validate_parameters, run with the registry given both as metrics_map and
\* as a key of metrics_params, or given in neither place, raises (ValueError for
\* both, KeyError for neither, when the section is reached), leaves metrics_params
\* unmerged, and no later stage runs: the construction stays at validate_parameters
\* with no cross_experiment_key (after an error the only attribute that changes is
\* reporting_handler_params, by a call of initialize_reporting).
C4_RegistryFailures ==
    /\ [][(Resolved /\ (BothRegistries(self) \/ NoRegistry(self))) =>
            /\ error' # "none"
            /\ pc' = "validate_parameters"
            /\ self'.metrics_params = self.metrics_params
            /\ self'.metrics_map = self.metrics_map
            /\ self'.cross_experiment_key = None
            /\ MetricsSectionReached(self) =>
                  error' = IF BothRegistries(self) THEN "ValueError" ELSE "KeyError"]_vars
    /\ [][error # "none" =>
            \/ /\ pc' = pc
               /\ \A k \in Attributes \ {"reporting_handler_params"} : self'[k] = self[k]
            \/ pc' = "update_custom_environment_params" /\ GEnv' = GEnv + 1]_vars

\* validate_parameters has raised ValueError in the section on metrics, for a
\* registry given twice
C4_Witness ==
    /\ pc = "validate_parameters"
    /\ error = "ValueError"
    /\ BothRegistries(self)
    /\ MetricsSectionReached(self)
    /\ self.cross_experiment_key = None

\* C5: validate_parameters, run with the registry given in exactly one place,
\* succeeds when its other sections do, and then metrics_params['metrics_map']
\* exists and equals the registry given and self.metrics_map, and every other key
\* of metrics_params keeps its value.
C5_RegistryMerged ==
    [][(Resolved /\ OneRegistry(self) /\ OtherSectionsPass(self)) =>
         /\ error' = "none"
         /\ pc' = "define_holdout_set"
         /\ DOMAIN self'.metrics_params.d = DOMAIN self.metrics_params.d \cup {"metrics_map"}
         /\ self'.metrics_params.d["metrics_map"] = SuppliedRegistry(self)
         /\ self'.metrics_map = SuppliedRegistry(self)
         /\ \A k \in DOMAIN self.metrics_params.d :
               self'.metrics_params.d[k] = self.metrics_params.d[k]]_vars

\* validate_parameters has returned for a registry nested in metrics_params
\* beside another parameter
C5_Witness ==
    /\ pc = "define_holdout_set"
    /\ error = "none"
    /\ args["metrics_map"] = None
    /\ self.metrics_map = PyList(<<PyStr("f1_score")>>)
    /\ DOMAIN self.metrics_params.d = {"metrics_map", "in_fold"}


(***************************************************************************)
(* Properties of define_holdout_set.                                       *)
(***************************************************************************)
\* define_holdout_set has just returned / has raised
HoldoutDefined == pc = "format_result_paths" /\ error = "none"
HoldoutRaised == pc = "define_holdout_set" /\ error # "none"

\* a holdout table exists (a failed read or a value of a wrong type leaves none)
HoldoutMaterialized == self.holdout_dataset.t = "DataFrame"

ColumnSet(df) == {df.columns[i] : i \in 1..Len(df.columns)}

\* the same set of column names, and as many columns
SameColumnSet(a, b) == ColumnSet(a) = ColumnSet(b) /\ Len(a.columns) = Len(b.columns)

\* C6: with a holdout table materialized, define_holdout_set returns if
\* and only if the holdout table and the training table have the same set of
\* columns (same names, same count, in any order), and raises ValueError otherwise.
C6_ColumnSetParity ==
    /\ (HoldoutDefined /\ HoldoutMaterialized) =>
           SameColumnSet(self.train_dataset, self.holdout_dataset)
    /\ (HoldoutRaised /\ HoldoutMaterialized) =>
           /\ error = "ValueError"
           /\ ~SameColumnSet(self.train_dataset, self.holdout_dataset)

\* what holds instead: with a holdout table materialized, define_holdout_set
\* returns if and only if the holdout table has the training table's columns in the
\* training table's order, and raises ValueError otherwise.
C6_ColumnSequenceParity ==
    /\ (HoldoutDefined /\ HoldoutMaterialized) =>
           self.train_dataset.columns = self.holdout_dataset.columns
    /\ (HoldoutRaised /\ HoldoutMaterialized) =>
           /\ error = "ValueError"
           /\ self.train_dataset.columns # self.holdout_dataset.columns

\* define_holdout_set has raised for a holdout table with the training table's
\* columns in another order
C6_Witness ==
    /\ HoldoutRaised
    /\ HoldoutMaterialized
    /\ error = "ValueError"
    /\ SameColumnSet(self.train_dataset, self.holdout_dataset)

(***************************************************************************)
(* Properties of format_result_paths.                                      *)
(***************************************************************************)
\* format_result_paths is due / has just returned
PlanningDue == pc = "format_result_paths" /\ error = "none"
PathsPlanned == pc = "generate_cross_experiment_key" /\ error = "none"

\* the file_blacklist the caller or, failing that, the defaults file gave
GivenBlacklist ==
    IF args["file_blacklist"] # None THEN args["file_blacklist"]
    ELSE IF FileHolds("file_blacklist") THEN files.json.d["file_blacklist"]
    ELSE None

\* category k is excluded: listed by the user, or a prediction file of a dataset
\* that was not given
Excluded(k) ==
    \/ GivenBlacklist.t = "list" /\ InList(k, GivenBlacklist)
    \/ k = "predictions_holdout" /\ self.holdout_dataset = None
    \/ k = "predictions_test" /\ self.test_dataset = None

\* C7: with a blacklist other than 'ALL' and a root path, after format_result_paths
\* every key of result_paths but 'root' has the path None if it is blacklisted
\* ('predictions_holdout' without a holdout set and 'predictions_test' without a
\* test set included, listed by the user or not), and the root joined with its
\* entry of RESULT_FILE_SUB_DIR_PATHS otherwise.
C7_PathPlanning ==
    (PathsPlanned /\ self.file_blacklist # ALL /\ self.root_results_path # None) =>
        \A k \in ResultKeys \ {"root"} :
            /\ InList(k, self.file_blacklist) <=> Excluded(k)
            /\ self.result_paths.d[k] =
                   IF Excluded(k) THEN None
                   ELSE PyStr(self.root_results_path.s \o "/" \o RESULT_FILE_SUB_DIR_PATHS[k])

\* paths have been planned for a user who listed 'predictions_test' and gave no
\* test set: that path is None and another one is set
C7_Witness ==
    /\ PathsPlanned
    /\ self.root_results_path # None
    /\ GivenBlacklist = PyList(<<PyStr("predictions_test")>>)
    /\ self.test_dataset = None
    /\ self.result_paths.d["predictions_test"] = None
    /\ self.result_paths.d["description"] # None

Count(k, list) == Cardinality({i \in 1..Len(list.l) : list.l[i] = PyStr(k)})

\* the categories format_result_paths adds for the datasets not given
ImplicitCategories(s) ==
    {k \in {"predictions_holdout"} : s.holdout_dataset = None}
    \cup {k \in {"predictions_test"} : s.test_dataset = None}

\* C8: when format_result_paths adds a category that is already in the blacklist,
\* the blacklist is unchanged; a category that occurred at most once before
\* planning occurs at most once after it.
C8_ImplicitExclusionIdempotent ==
    [][(PlanningDue /\ self.file_blacklist # ALL /\ self.root_results_path # None) =>
         /\ (\A k \in ImplicitCategories(self) : InList(k, self.file_blacklist)) =>
                self'.file_blacklist = self.file_blacklist
         /\ \A k \in valid_values :
                Count(k, self.file_blacklist) <= 1 => Count(k, self'.file_blacklist) <= 1]_vars

\* What the code keeps of C8: planning appends each implicit category once,
\* present or not, and leaves the rest of the blacklist as it was.
C8_ImplicitExclusionAppends ==
    [][(PlanningDue /\ self.file_blacklist # ALL /\ self.root_results_path # None) =>
         \A k \in valid_values :
             Count(k, self'.file_blacklist) =
                 Count(k, self.file_blacklist)
                 + (IF k \in ImplicitCategories(self) THEN 1 ELSE 0)]_vars

\* C9: when the blacklist is 'ALL', or no root path is configured,
\* format_result_paths plans nothing: result_paths is as it was (every entry but
\* 'root' None) and the blacklist is not extended.
C9_PlanningSkipped ==
    [][(PlanningDue /\ (self.file_blacklist = ALL \/ self.root_results_path = None)) =>
         /\ error' = "none"
         /\ self'.result_paths = self.result_paths
         /\ self'.file_blacklist = self.file_blacklist
         /\ \A k \in ResultKeys \ {"root"} : self'.result_paths.d[k] = None]_vars

\* format_result_paths has returned for a call without a root path, a holdout set
\* or a test set: no path, and nothing added to the empty blacklist
C9_Witness ==
    /\ PathsPlanned
    /\ self.root_results_path = None
    /\ self.holdout_dataset = None
    /\ self.test_dataset = None
    /\ self.file_blacklist = EmptyList
    /\ \A k \in ResultKeys : self.result_paths.d[k] = None

(***************************************************************************)
(* Properties of validate_file_blacklist, for the blacklists that reach    *)
(* validate_parameters.                                                    *)
(***************************************************************************)
\* a list of strings of valid_values
ValidList(b) ==
    /\ b.t = "list"
    /\ \A i \in 1..Len(b.l) : b.l[i].t = "str" /\ b.l[i].s \in valid_values

\* C10: validate_file_blacklist returns 'ALL' as it is, [] for None and a list of
\* valid categories as it is, and raises for every other value.
C10_BlacklistShapes ==
    Resolved =>
        LET b == self.file_blacklist
            r == validate_file_blacklist(b)
        IN  /\ b = ALL => r = Returned(ALL)
            /\ b = None => r = Returned(EmptyList)
            /\ ValidList(b) => r = Returned(b)
            /\ (b # ALL /\ b # None /\ ~ValidList(b)) => r.error \in {"TypeError", "ValueError"}

\* What the code keeps of C10: every falsy value, not None alone, is returned as [].
C10_ShapesWithFalsy ==
    Resolved =>
        LET b == self.file_blacklist
            r == validate_file_blacklist(b)
        IN  /\ b = ALL => r = Returned(ALL)
            /\ ~Truthy(b) => r = Returned(EmptyList)
            /\ ValidList(b) /\ Truthy(b) => r = Returned(b)
            /\ (b # ALL /\ Truthy(b) /\ ~ValidList(b)) => r.error \in {"TypeError", "ValueError"}


(***************************************************************************)
(* Properties of environment_workflow.                                     *)
(***************************************************************************)
\* the place of a stage in the order resolve, validate, derive holdout, plan
\* paths, fingerprint
StageNumber(p) ==
    CASE p = "idle" -> 0
      [] p = "update_custom_environment_params" -> 1
      [] p = "validate_parameters" -> 2
      [] p = "define_holdout_set" -> 3
      [] p = "format_result_paths" -> 4
      [] p = "generate_cross_experiment_key" -> 5
      [] p = "done" -> 6

\* C11: every step of a construction is the stage that is due returning, after
\* which the next of the five stages in order is due, or raising, after which no
\* stage of this construction runs, or a call of a method of an instance when no
\* construction runs, which runs no stage and leaves cross_experiment_key alone; cross_experiment_key is None in a failed
\* construction and is set only once all five stages have returned.
C11_WorkflowOrder ==
    /\ [][\/ /\ pc \in {"idle", "done"} \/ error # "none"
             /\ pc' = "update_custom_environment_params"
             /\ error' = "none"
             /\ GEnv' = GEnv + 1
          \/ /\ pc \notin {"idle", "done"}
             /\ error = "none"
             /\ error' = "none"
             /\ StageNumber(pc') = StageNumber(pc) + 1
             /\ GEnv' = GEnv
          \/ /\ pc \notin {"idle", "done"}
             /\ error = "none"
             /\ error' # "none"
             /\ pc' = pc
             /\ GEnv' = GEnv
          \/ /\ pc = "done" \/ error # "none"
             /\ self'.cross_experiment_key = self.cross_experiment_key
             /\ UNCHANGED <<pc, error, GEnv, outcome>>]_vars
    /\ [](error # "none" => self.cross_experiment_key = None)
    /\ [](self.cross_experiment_key # None => (pc = "done" /\ error = "none"))
    /\ []((pc = "done" /\ error = "none") => self.cross_experiment_key # None)

\* a construction has run its five stages after an earlier one was aborted
C11_Witness ==
    /\ pc = "done"
    /\ error = "none"
    /\ outcome = <<"failed", "done">>
    /\ self.cross_experiment_key # None

(***************************************************************************)
(* Properties of the paths of 'tested_keys' and 'key_attribute_lookup'.    *)
(***************************************************************************)
TestedKeysBlacklisted ==
    /\ PathsPlanned
    /\ self.file_blacklist.t = "list"
    /\ InList("tested_keys", self.file_blacklist)

\* C12: once the paths are planned with 'tested_keys' in the validated
\* file_blacklist, result_paths['key_attribute_lookup'] is None, as
\* result_paths['tested_keys'] is.
C12_LookupExcluded ==
    TestedKeysBlacklisted =>
        /\ self.result_paths.d["tested_keys"] = None
        /\ self.result_paths.d["key_attribute_lookup"] = None

\* what holds instead: 'tested_keys' is excluded, and 'key_attribute_lookup' is
\* excluded only if it is listed itself or no root is set
C12_LookupPlannedAlone ==
    TestedKeysBlacklisted =>
        /\ self.result_paths.d["tested_keys"] = None
        /\ self.result_paths.d["key_attribute_lookup"] = None <=>
               \/ self.root_results_path = None
               \/ InList("key_attribute_lookup", self.file_blacklist)

(***************************************************************************)
(* Properties of the active instance G.Env.  Instances are numbered in the *)
(* order of their construction; outcome[n] tells how the workflow of       *)
(* instance n ended.                                                       *)
(***************************************************************************)
\* no workflow is running: a caller can look at G.Env
BetweenConstructions == pc \in {"idle", "done"} \/ error # "none"

\* C14: between constructions G.Env is unset or an instance whose workflow ended
\* with cross_experiment_key computed, never one whose workflow raised; after a
\* successful construction that follows a successful one it is the later one.
C14_ActiveInstanceResolved ==
    BetweenConstructions =>
        /\ GEnv = 0 \/ (GEnv \in 1..Len(outcome) /\ outcome[GEnv] = "done")
        /\ (/\ Len(outcome) >= 2
            /\ outcome[Len(outcome)] = "done"
            /\ outcome[Len(outcome) - 1] = "done") => GEnv = Len(outcome)

\* what holds instead: G.Env is the instance constructed last, however its
\* workflow ended or while it runs
C14_ActiveInstanceLatest ==
    GEnv = IF BetweenConstructions THEN Len(outcome) ELSE Len(outcome) + 1

(***************************************************************************)
(* Properties of result_paths['root'].                                     *)
(***************************************************************************)
\* C15: after a successful workflow result_paths['root'] is root_results_path,
\* and if root_results_path is set both end with ASSETS_DIRNAME.
C15_CatalogueRootInStep ==
    (pc = "done" /\ error = "none") =>
        /\ self.result_paths.d["root"] = self.root_results_path
        /\ self.root_results_path # None =>
               /\ EndsWith(self.root_results_path.s, ASSETS_DIRNAME)
               /\ EndsWith(self.result_paths.d["root"].s, ASSETS_DIRNAME)

\* what holds instead: root_results_path ends with ASSETS_DIRNAME if it is set,
\* and result_paths['root'] is in step with it unless the root came from the
\* defaults file already ending with ASSETS_DIRNAME
C15_RootInStepUnlessFromFile ==
    (pc = "done" /\ error = "none") =>
        /\ self.root_results_path # None => EndsWith(self.root_results_path.s, ASSETS_DIRNAME)
        /\ self.result_paths.d["root"] =
               IF /\ args["root_results_path"] = None
                  /\ FileHolds("root_results_path")
                  /\ files.json.d["root_results_path"].t = "str"
                  /\ EndsWith(files.json.d["root_results_path"].s, ASSETS_DIRNAME)
               THEN None
               ELSE self.root_results_path

(***************************************************************************)
(* Properties of two constructions from the same arguments.                *)
(***************************************************************************)
\* the second of two constructions from the same argument objects, the same
\* defaults file and the same DEFAULT_PARAMS has ended
TwinEnded == twin # NoSelf /\ ended # NoSelf

\* no call of initialize_reporting has been made
NoReportingYet == GLog = 0

\* C13: when the second of two such constructions has ended, it has ended as the
\* first did and the two instances are equal attribute for attribute,
\* file_blacklist, result_paths, metrics_params and the parameters given to the
\* key maker included. (reporting_handler_params, which only initialize_reporting
\* changes, is equal if the two hold one dict object or no such call was made.)
C13_Determinism ==
    TwinEnded =>
        /\ outcome[Len(outcome)] = outcome[Len(outcome) - 1]
        /\ \A k \in Attributes \ {"reporting_handler_params"} : self[k] = twin[k]
        /\ twin.cross_experiment_key = None \/
               twin.cross_experiment_key.parameters = KeyParameters(self)
        /\ (NoReportingYet \/ paramsObject[GEnv] = paramsObject[GEnv - 1]) =>
               self.reporting_handler_params = twin.reporting_handler_params

\* two constructions were given one list object and a root, and each has
\* appended the implicit exclusions to it
C13_Witness ==
    /\ TwinEnded
    /\ pc = "done"
    /\ NoReportingYet
    /\ SameListObject
    /\ self.root_results_path # None
    /\ Len(self.file_blacklist.l) > Len(yielded.file_blacklist.l)
    /\ self.file_blacklist = twin.file_blacklist
    /\ self.result_paths = twin.result_paths

\* what the two constructions yielded, each at its end, is equal in every
\* attribute but two that are objects of the caller: file_blacklist, where the
\* second holds what the first yielded followed by the implicit exclusions once
\* more, and reporting_handler_params, where the second holds the key
\* 'heartbeat_path' if initialize_reporting has set it in the caller's dict
C13_EqualButCallerObjects ==
    TwinEnded =>
        /\ outcome[Len(outcome)] = outcome[Len(outcome) - 1]
        /\ \A k \in Attributes \ {"file_blacklist", "reporting_handler_params"} :
               ended[k] = yielded[k]
        /\ ended.file_blacklist =
               IF SameListObject /\ outcome[Len(outcome)] = "done"
                  /\ ended.root_results_path # None
               THEN ImplicitBlacklist(yielded.file_blacklist, ended.holdout_dataset,
                                      ended.test_dataset)
               ELSE yielded.file_blacklist
        /\ \/ ended.reporting_handler_params = yielded.reporting_handler_params
           \/ /\ SameDictObject
              /\ DOMAIN ended.reporting_handler_params.d =
                     DOMAIN yielded.reporting_handler_params.d \cup {"heartbeat_path"}
              /\ \A k \in DOMAIN yielded.reporting_handler_params.d \ {"heartbeat_path"} :
                     ended.reporting_handler_params.d[k] =
                         yielded.reporting_handler_params.d[k]

\* the file_blacklist of the first instance is as its construction yielded it
C13_FirstRecordKept == twin.file_blacklist = yielded.file_blacklist

====
